---- MODULE Spec2Model ----
(***************************************************************************)
(* vs-stats: splitting a variable-property clip into Subclips.             *)
(*                                                                         *)
(* The model follows src/vsstats/splitters.py, src/vsstats/types.py and    *)
(* src/vsstats/_helpers.py.  The frame-eval driver of the video engine is  *)
(* taken as the spec describes it: the callback is invoked once per frame  *)
(* index, in ascending order, 0 .. num_frames-1.                            *)
(*                                                                         *)
(* An optional value (Python None) is a sequence of length 0 or 1.         *)
(***************************************************************************)
EXTENDS Integers, Sequences, FiniteSets, TLC

\* Longest clip (number of frames) that is explored.
MaxLen == 3

None == << >>
Some(x) == << x >>
IsNone(o) == Len(o) = 0
Val(o) == o[1]

(***************************************************************************)
(* types.py                                                                *)
(***************************************************************************)

\* Resolution(width, height), the NamedTuple.
Resolution(w, h) == [width |-> w, height |-> h]

\* A frame as the callbacks read it: f.width, f.height, f.format.id and the
\* props _DurationNum / _DurationDen.
Frame(w, h, fmt, dn, dd) ==
    [width |-> w, height |-> h, fmt |-> fmt, dnum |-> dn, dden |-> dd]

\* The frames a clip is made of: square and non-square resolutions, two
\* formats, and durations 1/1, 2/2 (the same ratio) and 1/2.
FrameKinds ==
    { Frame(1, 1, 1, 1, 1), Frame(2, 1, 1, 1, 1), Frame(1, 2, 1, 1, 1),
      Frame(1, 1, 2, 1, 1), Frame(1, 1, 1, 1, 2), Frame(1, 1, 1, 2, 2) }

VARIABLES
    mode,        \* which entry point was called: "res", "fmt" or "mis"
    frames,      \* the source clip's frames, frames[n+1] is frame n
    cw, ch,      \* clip.width / clip.height as declared (0 = variable)
    argres,      \* the resolution argument (optional Resolution)
    argw, argh,  \* the width / height keyword arguments (optional int)
    argfmt,      \* split_formats' videoformat argument (optional format)
    filterfunc,  \* TRUE when a filterfunc was passed
    resolution,  \* _get_res's result (optional Resolution)
    pc,          \* "call", "scan", "done" (returned) or "raised"
    n,           \* the next frame index the driver hands to _eval
    reslist,     \* the closed-over output list (reslist/formatlist/splitlist)
    curclip,     \* the closed-over open Subclip (curclip/storeclip), optional
    ret,         \* the returned list (optional: None when the call gave None)
    sealed,      \* history: each Subclip as it was when it was appended
    objs,        \* which objects the list entries and the open Subclip are
    call         \* a single method call on a Subclip: arguments and result

vars == << mode, frames, cw, ch, argres, argw, argh, argfmt, filterfunc,
           resolution, pc, n, reslist, curclip, ret, sealed, objs, call >>

\* Line 61 with ">" for ">=".
SubclipRaises_strict(start, end) == start > end

\* The exception Subclip.__init__ raises: start must be before end.
SubclipRaises(start, end) == start >= end

\* Subclip.__init__ when it does not raise; resolution is always passed.
Subclip(clip, fmt, fps_num, fps_den, start, end, res) ==
    [clip |-> clip, fmt |-> fmt, fps_num |-> fps_num, fps_den |-> fps_den,
     start |-> start, end |-> end, resolution |-> res]

\* clip.width / clip.height of the clip a Subclip references.
ClipWidth(c) == IF c = "src" THEN cw ELSE IF c = "transposed" THEN ch ELSE 0
ClipHeight(c) == IF c = "src" THEN ch ELSE IF c = "transposed" THEN cw ELSE 0

\* clip.get_frame(i) of the clip a Subclip references.
GetFrame(c, i) ==
    LET f == frames[i + 1]
    IN  IF c = "transposed"
        THEN Frame(f.height, f.width, f.fmt, f.dnum, f.dden)
        ELSE f

\* Subclip.width: fills self.resolution from the clip or the frame at start
\* when the stored width is 0, then returns self.resolution.width.
Width(sc) ==
    IF sc.resolution.width = 0
    THEN IF ClipWidth(sc.clip) # 0
         THEN ClipWidth(sc.clip)
         ELSE GetFrame(sc.clip, sc.start).width
    ELSE sc.resolution.width

\* Subclip.height: fills self.resolution when the stored height is 0, then
\* returns self.resolution.width (line 155).
Height(sc) ==
    IF sc.resolution.height = 0
    THEN LET rw == sc.resolution.width
             cwid == ClipWidth(sc.clip)
         IN  IF rw > 0 THEN rw
             ELSE IF cwid > 0 THEN cwid
             ELSE GetFrame(sc.clip, sc.start).width
    ELSE sc.resolution.width

\* a / b == c / d for the float divisions of lines 112 and 159 (b, d > 0).
SameRatio(a, b, c, d) == a * d = c * b

\* Subclip.is_mismatch(other) for a VideoFrame other (lines 112-118).
is_mismatch(sc, f) ==
    /\ SameRatio(sc.fps_num, sc.fps_den, f.dnum, f.dden)
    /\ sc.fmt = f.fmt
    /\ Width(sc) = f.width
    /\ Height(sc) = f.height

\* Subclip.trim (lines 123-125): the clip sliced to [start, end); AssumeFPS
\* and the format-only resize keep every frame's width and height.
TrimFrames(sc) ==
    [i \in 1..(sc.end - sc.start) |-> GetFrame(sc.clip, sc.start + i - 1)]

(***************************************************************************)
(* _helpers.py                                                             *)
(***************************************************************************)

\* _get_res raises ValueError: exactly one of width / height was given.
GetResRaises(res, width, height) ==
    /\ IsNone(res)
    /\ ~(IsNone(width) /\ IsNone(height))
    /\ ~(~IsNone(width) /\ ~IsNone(height))

\* _get_res's return value when it does not raise.
GetRes(res, width, height) ==
    IF IsNone(res) /\ IsNone(width) /\ IsNone(height) THEN None
    ELSE IF ~IsNone(res) THEN res
    ELSE IF Val(width) > 0 /\ Val(height) > 0
         THEN Some(Resolution(Val(width), Val(height)))
         ELSE None

(***************************************************************************)
(* The call: which entry point, on which clip, with which arguments        *)
(***************************************************************************)

RECURSIVE SeqsUpTo(_, _)
\* All sequences over S of length 1 .. k.
SeqsUpTo(S, k) ==
    IF k = 0 THEN {}
    ELSE LET shorter == SeqsUpTo(S, k - 1)
         IN  {<< x >> : x \in S} \cup shorter
             \cup {Append(q, x) : q \in {r \in shorter : Len(r) = k - 1}, x \in S}

Clips == SeqsUpTo(FrameKinds, MaxLen)

\* All frames of fs have the resolution of the first one.
SameResolution(fs) ==
    \A i \in 1..Len(fs) : fs[i].width = fs[1].width /\ fs[i].height = fs[1].height

\* The (width, height) a clip may declare: 0x0 (variable), or the common
\* resolution of its frames when they have one.
Declared(fs) ==
    {<< 0, 0 >>} \cup
    (IF SameResolution(fs) THEN {<< fs[1].width, fs[1].height >>} ELSE {})

\* clip.fps_num / clip.fps_den: the inverse of the common frame duration,
\* or 0/1 when the durations differ.
ClipFps ==
    IF \A i \in 1..Len(frames) :
           frames[i].dnum = frames[1].dnum /\ frames[i].dden = frames[1].dden
    THEN << frames[1].dden, frames[1].dnum >>
    ELSE << 0, 1 >>

\* split_resolutions' (resolution, width, height) arguments.
ResArgs ==
    {<< None, None, None >>}
    \cup {<< Some(Resolution(w, h)), None, None >> :
              w \in {1, 2}, h \in {1, 2}}
    \cup {<< None, w, h >> : w \in {None, Some(0), Some(1), Some(2)},
                              h \in {None, Some(0), Some(1)}}

\* split_formats' videoformat argument: None, a format, or a reference clip
\* (node) whose own format is constant or variable (None).
FmtArg(node, fmt) == [node |-> node, fmt |-> fmt]

FmtArgs ==
    { FmtArg(FALSE, None), FmtArg(FALSE, Some(1)), FmtArg(FALSE, Some(2)),
      FmtArg(TRUE, Some(1)), FmtArg(TRUE, None) }

NoCall == [op |-> "none"]

\* Object identity: ids[i] is the object that reslist[i] is, cur the object
\* that the open Subclip is (0 when there is none), next the first unused one.
NoObjects == [ids |-> << >>, cur |-> 0, next |-> 1]

Init ==
    /\ mode \in {"res", "fmt", "mis"}
    /\ frames \in Clips
    /\ \E d \in Declared(frames) : cw = d[1] /\ ch = d[2]
    /\ \E a \in (IF mode = "res" THEN ResArgs ELSE {<< None, None, None >>}) :
           argres = a[1] /\ argw = a[2] /\ argh = a[3]
    /\ argfmt \in (IF mode = "fmt" THEN FmtArgs ELSE {FmtArg(FALSE, None)})
    /\ filterfunc \in BOOLEAN
    /\ resolution = None
    /\ pc = "call"
    /\ n = 0
    /\ reslist = << >>
    /\ curclip = None
    /\ ret = None
    /\ sealed = << >>
    /\ objs = NoObjects
    /\ call = NoCall

(***************************************************************************)
(* splitters.py: split_resolutions                                         *)
(***************************************************************************)

\* Line 46 with the swapped comparison left out.
Transposes_never(res) == FALSE

\* Line 46: the clip is the requested resolution turned on its side.
Transposes(res) == cw = res.height /\ ch = res.width

\* Lines 58 and 61 with the test inverted.
ConstantRes_inverted(c) == ClipWidth(c) = 0 /\ ClipHeight(c) = 0

\* Lines 58 and 61: "clip.width and clip.height", the clip is constant.
ConstantRes(c) == ClipWidth(c) # 0 /\ ClipHeight(c) # 0

\* Lines 49-57 and 62-70 with the last frame index as the end.
WholeClip_lastindex(c) ==
    Subclip(c, GetFrame(c, 0).fmt, ClipFps[1], ClipFps[2], 0, Len(frames) - 1,
            Resolution(ClipWidth(c), ClipHeight(c)))

\* Lines 49-57 and 62-70: one Subclip for the whole clip c.
WholeClip(c) ==
    Subclip(c, GetFrame(c, 0).fmt, ClipFps[1], ClipFps[2], 0, Len(frames),
            Resolution(ClipWidth(c), ClipHeight(c)))

\* The call returns: the list (or None) is handed back.
Return(r, made) ==
    /\ pc' = "done"
    /\ ret' = r
    /\ sealed' = made

\* The exception is swallowed and the call goes on to the scan.
Raise_swallowed ==
    /\ pc' = "scan"
    /\ UNCHANGED << ret, sealed >>

\* The call ends with an exception.
Raise ==
    /\ pc' = "raised"
    /\ UNCHANGED << ret, sealed >>

\* Lines 72-73 (164-165, 250-251): fresh accumulators, the scan starts.
StartScan ==
    /\ pc' = "scan"
    /\ UNCHANGED << ret, sealed >>

\* split_resolutions up to the frame eval: _get_res and the early returns.
ResEnter ==
    /\ pc = "call"
    /\ mode = "res"
    /\ UNCHANGED << mode, frames, cw, ch, argres, argw, argh, argfmt,
                    filterfunc, n, reslist, curclip, objs, call >>
    /\ IF GetResRaises(argres, argw, argh)
       THEN /\ Raise
            /\ UNCHANGED resolution
       ELSE LET res == GetRes(argres, argw, argh)
                c == IF ~IsNone(res) /\ Transposes(Val(res))
                     THEN "transposed" ELSE "src"
            IN  /\ resolution' = res
                /\ IF ~IsNone(res)
                   THEN IF /\ ClipWidth(c) = Val(res).width
                           /\ ClipHeight(c) = Val(res).height
                        THEN IF SubclipRaises(0, Len(frames))
                             THEN Raise
                             ELSE Return(Some(<< WholeClip(c) >>),
                                         << WholeClip(c) >>)
                        ELSE IF ConstantRes(c)
                             THEN Return(None, << >>)
                             ELSE StartScan
                   ELSE IF ConstantRes(c)
                        THEN IF SubclipRaises(0, Len(frames))
                             THEN Raise
                             ELSE Return(Some(<< WholeClip(c) >>),
                                         << WholeClip(c) >>)
                        ELSE StartScan

\* A new Subclip [k, k+1) for frame f (lines 92-100, 106-114).
Open(f, k) ==
    Subclip("src", f.fmt, f.dnum, f.dden, k, k + 1,
            Resolution(f.width, f.height))

\* Line 85: a target is set and the frame is not of that resolution.
Discarded(res, f) ==
    ~IsNone(res) /\ (f.width # Val(res).width \/ f.height # Val(res).height)

\* Line 103: the frame's resolution differs from the open Subclip's.
ResBoundary(sc, f) == f.width # Width(sc) \/ f.height # Height(sc)

\* Lines 117 (212, 282) with "<=" for "==".
IsLast_atmost(k) == k <= Len(frames)

\* Lines 117 (212, 282): the test for the last frame.
IsLast(k) == k = Len(frames)

\* "x.end = k" on object id, as every list entry that is that object
\* shows it.
SetEnd(list, ids, id, k) ==
    [i \in 1..Len(list) |->
        IF ids[i] = id THEN [list[i] EXCEPT !.end = k] ELSE list[i]]

\* Lines 86-88 (181-183): the open Subclip, if any, is appended and the
\* open slot is cleared.
SealOpen ==
    IF ~IsNone(curclip)
    THEN /\ reslist' = Append(reslist, Val(curclip))
         /\ sealed' = Append(sealed, Val(curclip))
         /\ curclip' = None
         /\ objs' = [objs EXCEPT !.ids = Append(@, objs.cur), !.cur = 0]
    ELSE UNCHANGED << reslist, sealed, curclip, objs >>

\* Lines 91-101 (186-196): no Subclip is open, one is opened at frame f.
OpenFirst(f) ==
    /\ curclip' = Some(Open(f, n))
    /\ objs' = [objs EXCEPT !.cur = objs.next, !.next = @ + 1]
    /\ UNCHANGED << reslist, sealed >>

\* Lines 103-118 (198-213, 268-283): with old (object oldid) open, frame f
\* either closes it at n and opens a new Subclip (object fresh), or moves its
\* end to n; then the test for the last frame.
Step(old, oldid, fresh, cut, f) ==
    LET closed == [old EXCEPT !.end = n]
        listA == SetEnd(reslist, objs.ids, oldid, n)
        list1 == IF cut THEN Append(listA, closed) ELSE listA
        seal1 == IF cut THEN Append(sealed, closed) ELSE sealed
        ids1 == IF cut THEN Append(objs.ids, oldid) ELSE objs.ids
        cur1 == IF cut THEN Open(f, n) ELSE closed
        id1 == IF cut THEN fresh ELSE oldid
        next1 == IF cut THEN fresh + 1 ELSE fresh
    IN  /\ curclip' = Some(cur1)
        /\ reslist' = IF IsLast(n) THEN Append(list1, cur1) ELSE list1
        /\ sealed' = IF IsLast(n) THEN Append(seal1, cur1) ELSE seal1
        /\ objs' = [ids |-> IF IsLast(n) THEN Append(ids1, id1) ELSE ids1,
                    cur |-> id1, next |-> next1]

\* split_resolutions._eval for frame n (lines 85-120).
ResEval ==
    /\ pc = "scan"
    /\ mode = "res"
    /\ n < Len(frames)
    /\ LET f == frames[n + 1]
       IN  IF Discarded(resolution, f)
           THEN SealOpen
           ELSE IF IsNone(curclip)
           THEN OpenFirst(f)
           ELSE Step(Val(curclip), objs.cur, objs.next,
                     ResBoundary(Val(curclip), f), f)
    /\ n' = n + 1
    /\ UNCHANGED << mode, frames, cw, ch, argres, argw, argh, argfmt,
                    filterfunc, resolution, pc, ret, call >>

\* Lines 130-131 (225-226, 293-294): every Subclip of the list gets the
\* spliced clip as its clip.
Repoint(list) == [i \in 1..Len(list) |-> [list[i] EXCEPT !.clip = "spliced"]]

\* Lines 125-133 with each Subclip re-pointed inside the filterfunc loop: a
\* failure after the first one leaves that one re-pointed.
Finish_eager(emptyIsNone) ==
    \E raises \in BOOLEAN :
        /\ raises => filterfunc
        /\ IF raises
           THEN /\ pc' = "raised"
                /\ reslist' = [i \in 1..Len(reslist) |->
                                  IF i = 1
                                  THEN [reslist[i] EXCEPT !.clip = "spliced"]
                                  ELSE reslist[i]]
                /\ UNCHANGED ret
           ELSE LET out == IF filterfunc THEN Repoint(reslist) ELSE reslist
                IN  /\ reslist' = out
                    /\ pc' = "done"
                    /\ ret' = IF emptyIsNone /\ Len(out) = 0
                              THEN None ELSE Some(out)
        /\ UNCHANGED << mode, frames, cw, ch, argres, argw, argh, argfmt,
                        filterfunc, resolution, n, curclip, sealed, objs,
                        call >>

\* Lines 125-133 (220-227, 288-295): the filterfunc and the splice, which may
\* raise in the engine or in the caller's function, then the return.
Finish(emptyIsNone) ==
    \E raises \in BOOLEAN :
        /\ raises => filterfunc
        /\ IF raises
           THEN /\ pc' = "raised"
                /\ UNCHANGED << reslist, ret >>
           ELSE LET out == IF filterfunc THEN Repoint(reslist) ELSE reslist
                IN  /\ reslist' = out
                    /\ pc' = "done"
                    /\ ret' = IF emptyIsNone /\ Len(out) = 0
                              THEN None ELSE Some(out)
        /\ UNCHANGED << mode, frames, cw, ch, argres, argw, argh, argfmt,
                        filterfunc, resolution, n, curclip, sealed, objs,
                        call >>

\* split_resolutions once the frame eval has been through every frame.
ResFinish ==
    /\ pc = "scan"
    /\ mode = "res"
    /\ n = Len(frames)
    /\ Finish(TRUE)

(***************************************************************************)
(* splitters.py: split_formats                                             *)
(***************************************************************************)

\* Lines 159-162: a reference clip of variable format is a TypeError.
FormatRaises(a) == a.node /\ IsNone(a.fmt)

\* Lines 159-160: the format to match, read off the reference clip if any.
VideoFormat(a) == a.fmt

\* split_formats up to the frame eval (lines 159-165).
FmtEnter ==
    /\ pc = "call"
    /\ mode = "fmt"
    /\ IF FormatRaises(argfmt) THEN Raise ELSE StartScan
    /\ UNCHANGED << mode, frames, cw, ch, argres, argw, argh, argfmt,
                    filterfunc, resolution, n, reslist, curclip, objs, call >>

\* Line 180: a target format is set and the frame is not of that format.
FmtDiscarded(fmt, f) == ~IsNone(fmt) /\ f.fmt # Val(fmt)

\* Line 198: the frame's format differs from the open Subclip's.
FmtBoundary(sc, f) == sc.fmt # f.fmt

\* split_formats._eval for frame n (lines 180-215).
FmtEval ==
    /\ pc = "scan"
    /\ mode = "fmt"
    /\ n < Len(frames)
    /\ LET f == frames[n + 1]
       IN  IF FmtDiscarded(VideoFormat(argfmt), f)
           THEN SealOpen
           ELSE IF IsNone(curclip)
           THEN OpenFirst(f)
           ELSE Step(Val(curclip), objs.cur, objs.next,
                     FmtBoundary(Val(curclip), f), f)
    /\ n' = n + 1
    /\ UNCHANGED << mode, frames, cw, ch, argres, argw, argh, argfmt,
                    filterfunc, resolution, pc, ret, call >>

\* split_formats once the frame eval has been through every frame.
FmtFinish ==
    /\ pc = "scan"
    /\ mode = "fmt"
    /\ n = Len(frames)
    /\ Finish(TRUE)

(***************************************************************************)
(* splitters.py: split_mismatch                                            *)
(***************************************************************************)

\* split_mismatch up to the frame eval (lines 250-251).
MisEnter ==
    /\ pc = "call"
    /\ mode = "mis"
    /\ StartScan
    /\ UNCHANGED << mode, frames, cw, ch, argres, argw, argh, argfmt,
                    filterfunc, resolution, n, reslist, curclip, objs, call >>

\* Line 268: the test that closes the open Subclip at frame f.
MisBoundary(sc, f) == is_mismatch(sc, f)

\* split_mismatch._eval for frame n (lines 258-284).
MisEval ==
    /\ pc = "scan"
    /\ mode = "mis"
    /\ n < Len(frames)
    /\ LET f == frames[n + 1]
       IN  IF IsNone(curclip)
           THEN Step(Open(f, n), objs.next, objs.next + 1,
                     MisBoundary(Open(f, n), f), f)
           ELSE Step(Val(curclip), objs.cur, objs.next,
                     MisBoundary(Val(curclip), f), f)
    /\ n' = n + 1
    /\ UNCHANGED << mode, frames, cw, ch, argres, argw, argh, argfmt,
                    filterfunc, resolution, pc, ret, call >>

\* split_mismatch once the frame eval has been through every frame.
MisFinish ==
    /\ pc = "scan"
    /\ mode = "mis"
    /\ n = Len(frames)
    /\ Finish(FALSE)

Next ==
    \/ ResEnter
    \/ ResEval
    \/ ResFinish
    \/ FmtEnter
    \/ FmtEval
    \/ FmtFinish
    \/ MisEnter
    \/ MisEval
    \/ MisFinish

(***************************************************************************)
(* types.py: single calls of Subclip.is_mismatch on a clip at rest         *)
(***************************************************************************)

\* clip.format of the source clip: the common format of its frames, or None.
ClipFormat ==
    IF \A i \in 1..Len(frames) : frames[i].fmt = frames[1].fmt
    THEN Some(frames[1].fmt)
    ELSE None

\* Subclip.get_frame(n=0), lines 80-86: the frame at start of the clip.
SubclipGetFrame(sc) == GetFrame(sc.clip, sc.start)

\* Lines 99-100: other is a Subclip, its first frame is compared.
IsMismatchSubclip(sc, other) == is_mismatch(sc, SubclipGetFrame(other))

\* Lines 103-106: other is a VideoNode with a variable property.
NodeVariable ==
    \/ IsNone(ClipFormat)
    \/ cw = 0
    \/ ch = 0
    \/ ClipFps[1] = 0

\* Lines 102-109: other is a VideoNode (here the source clip).
IsMismatchNode(sc) ==
    IF NodeVariable THEN FALSE ELSE is_mismatch(sc, GetFrame("src", 0))

\* The Subclips a call is made on: any frame kind's properties, at any index.
Subclips == {Open(k, i) : k \in FrameKinds, i \in 0..(Len(frames) - 1)}

Called(kind, sc, other, variable, result) ==
    [op |-> "is_mismatch", kind |-> kind, self |-> sc, other |-> other,
     variable |-> variable, result |-> result]

CallStays ==
    UNCHANGED << mode, frames, cw, ch, argres, argw, argh, argfmt, filterfunc,
                 resolution, pc, n, reslist, curclip, ret, sealed, objs >>

\* sc.is_mismatch(f) for a VideoFrame f.
CallMismatchFrame ==
    /\ call = NoCall
    /\ \E sc \in Subclips, f \in FrameKinds :
           call' = Called("frame", sc, f, FALSE, is_mismatch(sc, f))
    /\ CallStays

\* sc.is_mismatch(other) for a Subclip other of the same clip.
CallMismatchSubclip ==
    /\ call = NoCall
    /\ \E sc \in Subclips, j \in 0..(Len(frames) - 1) :
           LET other == Open(frames[j + 1], j)
           IN  call' = Called("subclip", sc, SubclipGetFrame(other), FALSE,
                              IsMismatchSubclip(sc, other))
    /\ CallStays

\* sc.is_mismatch(clip) for the source clip as a VideoNode.
CallMismatchNode ==
    /\ call = NoCall
    /\ \E sc \in Subclips :
           call' = Called("node", sc, GetFrame("src", 0), NodeVariable,
                          IsMismatchNode(sc))
    /\ CallStays

\* Subclip.__init__ (lines 61-69): it raises, or gives the object, with
\* Resolution(0, 0) for a resolution that was not passed.
SubclipInit(clip, fmt, fps_num, fps_den, start, end, res) ==
    IF SubclipRaises(start, end)
    THEN [raised |-> TRUE, obj |-> None]
    ELSE [raised |-> FALSE,
          obj |-> Some(Subclip(clip, fmt, fps_num, fps_den, start, end,
                               IF IsNone(res) THEN Resolution(0, 0)
                               ELSE Val(res)))]

\* Subclip(clip, fmt, fps_num, fps_den, start, end[, resolution]).
CallInit ==
    /\ call = NoCall
    /\ \E k \in FrameKinds, start \in 0..Len(frames), end \in 0..Len(frames),
          passed \in BOOLEAN :
           LET res == IF passed THEN Some(Resolution(k.width, k.height))
                      ELSE None
               made == SubclipInit("src", k.fmt, k.dnum, k.dden, start, end, res)
           IN  call' = [op |-> "init", start |-> start, end |-> end,
                        resolution |-> res, raised |-> made.raised,
                        obj |-> made.obj]
    /\ CallStays

\* The Subclips whose resolution was not passed: Resolution(0, 0).
UnsetSubclips ==
    {[sc EXCEPT !.resolution = Resolution(0, 0)] : sc \in Subclips}

\* sc.width and sc.height, read off a Subclip.
CallSize ==
    /\ call = NoCall
    /\ \E sc \in Subclips \cup UnsetSubclips :
           call' = [op |-> "size", self |-> sc, width |-> Width(sc),
                    height |-> Height(sc)]
    /\ CallStays

InitCall ==
    /\ Init
    /\ mode = "mis"
    /\ ~filterfunc

NextCall ==
    \/ CallMismatchFrame
    \/ CallMismatchSubclip
    \/ CallMismatchNode
    \/ CallInit
    \/ CallSize

SpecCall == InitCall /\ [][NextCall]_vars

Spec == Init /\ [][Next]_vars

(***************************************************************************)
(* Properties                                                              *)
(***************************************************************************)

\* The list the call handed back (an empty list for None).
Returned == IF IsNone(ret) THEN << >> ELSE Val(ret)

\* The resolution of frame k of the source clip.
FrameRes(k) == Resolution(frames[k + 1].width, frames[k + 1].height)

\* Frame index k lies in [start, end) of some Subclip of the list.
Covered(list, k) ==
    \E i \in 1..Len(list) : list[i].start <= k /\ k < list[i].end

\* The intervals of the list are disjoint, ordered by start, and their union
\* is exactly [0, length).
IsPartition(list, length) ==
    /\ \A i \in 1..Len(list) :
           0 <= list[i].start /\ list[i].start < list[i].end
                              /\ list[i].end <= length
    /\ \A i, j \in 1..Len(list) : i < j => list[i].end <= list[j].start
    /\ \A k \in 0..(length - 1) : Covered(list, k)

\* The call was split_resolutions on a clip declared variable, so the frame
\* eval ran, and it has returned.
ResScanned == pc = "done" /\ mode = "res" /\ cw = 0 /\ ch = 0

NoTargetGiven == IsNone(argres) /\ IsNone(argw) /\ IsNone(argh)

\* C1: split_resolutions without a target on a variable-resolution clip
\* returns Subclips whose [start, end) are disjoint, ordered by start and
\* cover exactly [0, num_frames).
C1_PartitionNoTarget ==
    (ResScanned /\ NoTargetGiven) => IsPartition(Returned, Len(frames))

\* C2: split_resolutions with a target on a variable-resolution clip: frame k
\* is inside a returned Subclip exactly when frame k has the target's
\* resolution.
C2_TargetExactlyMatching ==
    (ResScanned /\ ~IsNone(resolution)) =>
        \A k \in 0..(Len(frames) - 1) :
            Covered(Returned, k) <=> (FrameRes(k) = Val(resolution))

\* C3: the Subclips split_resolutions returns are maximal: every frame inside
\* one has the Subclip's resolution, and two adjacent returned Subclips have
\* different resolutions.
C3_RunsMaximal ==
    ResScanned =>
        /\ \A i \in 1..Len(Returned) :
               \A k \in 0..(Len(frames) - 1) :
                   (Returned[i].start <= k /\ k < Returned[i].end)
                       => FrameRes(k) = Returned[i].resolution
        /\ \A i \in 1..(Len(Returned) - 1) :
               Returned[i].end = Returned[i + 1].start
                   => Returned[i].resolution # Returned[i + 1].resolution

\* C4: every Subclip that exists, open or in the output list, during or after
\* the scan of any entry point, has start < end.
C4_StartBeforeEnd ==
    /\ \A i \in 1..Len(reslist) : reslist[i].start < reslist[i].end
    /\ \A i \in 1..Len(Returned) : Returned[i].start < Returned[i].end
    /\ ~IsNone(curclip) => Val(curclip).start < Val(curclip).end

\* Two frames differ in format, width, height or frame duration.
FramesDiffer(f, g) ==
    \/ f.fmt # g.fmt
    \/ f.width # g.width
    \/ f.height # g.height
    \/ ~SameRatio(f.dnum, f.dden, g.dnum, g.dden)

\* One Subclip of the list ends at k and the next one starts at k.
BoundaryAt(list, k) ==
    \E i \in 1..(Len(list) - 1) : list[i].end = k /\ list[i + 1].start = k

\* C5: split_mismatch produces a boundary at k >= 1 exactly when frame k
\* differs from frame k-1 in format, width, height or frame duration.
C5_EveryBoundary ==
    (pc = "done" /\ mode = "mis") =>
        \A k \in 1..(Len(frames) - 1) :
            BoundaryAt(Returned, k) <=> FramesDiffer(frames[k], frames[k + 1])

\* A Subclip's stored properties differ from a frame's.
Differs(sc, f) ==
    \/ sc.fmt # f.fmt
    \/ sc.resolution.width # f.width
    \/ sc.resolution.height # f.height
    \/ ~SameRatio(sc.fps_num, sc.fps_den, f.dnum, f.dden)

\* C6: is_mismatch on a Subclip and a frame (or another Subclip) is true
\* exactly when format, width, height or frame-duration ratio differ.
C6_MismatchIffDiffers ==
    (call.op = "is_mismatch" /\ call.kind \in {"frame", "subclip"})
        => (call.result <=> Differs(call.self, call.other))

\* C7: with a filterfunc, every returned Subclip references the spliced clip
\* and has the start, end and resolution it had when it was appended.
C7_AllRepointed ==
    (pc = "done" /\ filterfunc) =>
        /\ Len(Returned) = Len(sealed)
        /\ \A i \in 1..Len(Returned) :
               /\ Returned[i].clip = "spliced"
               /\ Returned[i].start = sealed[i].start
               /\ Returned[i].end = sealed[i].end
               /\ Returned[i].resolution = sealed[i].resolution

\* The frame eval callback has not run: no frame was handed to it and the
\* accumulators are as they were created.
NeverScanned == n = 0 /\ IsNone(curclip) /\ reslist = << >>

\* split_resolutions was called on a clip of constant declared resolution
\* and the call has gone past its first statement.
ResConstantCalled == mode = "res" /\ pc # "call" /\ cw # 0 /\ ch # 0

\* _get_res returned None: no target filter is in force.
NoTargetResolved ==
    ~GetResRaises(argres, argw, argh) /\ IsNone(resolution)

\* C8: on a clip of constant declared resolution, without a target,
\* split_resolutions returns exactly one Subclip [0, num_frames) with the
\* declared resolution, and the per-frame callback is never invoked.
C8_ConstantNoTarget ==
    (ResConstantCalled /\ NoTargetResolved) =>
        /\ pc = "done"
        /\ ~IsNone(ret)
        /\ Len(Returned) = 1
        /\ Returned[1].start = 0
        /\ Returned[1].end = Len(frames)
        /\ Returned[1].resolution = Resolution(cw, ch)
        /\ NeverScanned

C8_Witness ==
    /\ ResConstantCalled
    /\ NoTargetGiven
    /\ pc = "done"
    /\ Len(frames) > 1
    /\ cw # ch

\* The target is the clip's declared resolution with width and height
\* swapped.
SwappedTarget ==
    ~IsNone(resolution) /\ Val(resolution) = Resolution(ch, cw)

\* C9: on a clip of constant declared resolution with a target equal to the
\* clip's (height, width), split_resolutions returns one Subclip
\* [0, num_frames) over the transposed clip; its resolution and every frame
\* of its trim have the target's width and height.
C9_SwappedTarget ==
    (ResConstantCalled /\ SwappedTarget) =>
        /\ pc = "done"
        /\ ~IsNone(ret)
        /\ Len(Returned) = 1
        /\ Returned[1].clip = "transposed"
        /\ Returned[1].start = 0
        /\ Returned[1].end = Len(frames)
        /\ Returned[1].resolution = Val(resolution)
        /\ Len(TrimFrames(Returned[1])) = Len(frames)
        /\ \A i \in 1..Len(TrimFrames(Returned[1])) :
               /\ TrimFrames(Returned[1])[i].width = Val(resolution).width
               /\ TrimFrames(Returned[1])[i].height = Val(resolution).height

C9_Witness ==
    /\ ResConstantCalled
    /\ SwappedTarget
    /\ pc = "done"
    /\ cw # ch
    /\ Len(frames) > 1

\* The target is neither the clip's declared resolution nor that resolution
\* with width and height swapped.
UnmatchedTarget ==
    /\ ~IsNone(resolution)
    /\ Val(resolution) # Resolution(cw, ch)
    /\ Val(resolution) # Resolution(ch, cw)

\* C10: on a clip of constant declared resolution with a target that matches
\* neither directly nor swapped, split_resolutions returns None and the
\* per-frame callback is never invoked.
C10_UnmatchedTarget ==
    (ResConstantCalled /\ UnmatchedTarget) =>
        /\ pc = "done"
        /\ IsNone(ret)
        /\ NeverScanned

C10_Witness ==
    /\ ResConstantCalled
    /\ UnmatchedTarget
    /\ pc = "done"
    /\ Len(frames) > 1

\* A one-frame clip was split without a target and the call has returned.
SingleFrameNoTarget ==
    /\ Len(frames) = 1
    /\ pc = "done"
    /\ \/ mode = "res" /\ cw = 0 /\ ch = 0 /\ NoTargetGiven
       \/ mode = "fmt" /\ ~argfmt.node /\ IsNone(argfmt.fmt)
       \/ mode = "mis"

\* C11: on a one-frame clip without a target, each entry point returns
\* exactly one Subclip, with start = 0 and end = 1.
C11_SingleFrame ==
    SingleFrameNoTarget =>
        /\ Len(Returned) = 1
        /\ Returned[1].start = 0
        /\ Returned[1].end = 1

\* No Resolution was passed, width and height both were, and at least one
\* of them is not positive.
NonPositiveGiven ==
    /\ IsNone(argres)
    /\ ~IsNone(argw)
    /\ ~IsNone(argh)
    /\ (Val(argw) <= 0 \/ Val(argh) <= 0)

\* C12: a request with width and height both given and one or both
\* non-positive fails with an error; it never goes on as if no filter had
\* been requested.
C12_NonPositiveRaises ==
    (mode = "res" /\ pc # "call" /\ NonPositiveGiven) => pc = "raised"

\* No Resolution was passed and exactly one of width / height was.
OneOfWidthHeightGiven == IsNone(argres) /\ (IsNone(argw) # IsNone(argh))

\* C13: a request with exactly one of width / height fails with an error
\* before any frame is scanned: the callback is never invoked and no Subclip
\* is created.
C13_OneDimensionRaises ==
    (mode = "res" /\ pc # "call" /\ OneOfWidthHeightGiven) =>
        /\ pc = "raised"
        /\ NeverScanned
        /\ IsNone(ret)
        /\ sealed = << >>
        /\ objs = NoObjects

C13_Witness ==
    /\ mode = "res"
    /\ pc = "raised"
    /\ IsNone(argres)
    /\ ~IsNone(argw)
    /\ IsNone(argh)
    /\ Len(frames) > 1

\* C14: Subclip(...) with start >= end raises and gives no object, whatever
\* the other arguments are.
C14_InvalidRange ==
    (call.op = "init" /\ call.start >= call.end)
        => (call.raised /\ IsNone(call.obj))

C14_Witness ==
    /\ call.op = "init"
    /\ call.start = call.end
    /\ call.start > 0
    /\ ~IsNone(call.resolution)
    /\ call.raised

\* The callback for frame n-1 has returned and left open the Subclip that was
\* already open before it: that frame continued the open Subclip.
Continued ==
    /\ pc = "scan"
    /\ n >= 1
    /\ ~IsNone(curclip)
    /\ Val(curclip).start < n - 1

\* C15: when frame k continues the open Subclip, the open Subclip's end is
\* k+1 right after the callback for frame k returns.
C15_EndAfterContinue == Continued => Val(curclip).end = n

\* The frame eval has been through every frame and the call has returned.
ScanReturned == pc = "done" /\ n = Len(frames)

\* C16: after the scan, every Subclip that was ever opened is in the output
\* list: the one open at the last frame is sealed too.
C16_LastRunSealed ==
    ScanReturned =>
        /\ Len(Returned) = Len(objs.ids)
        /\ \A id \in 1..(objs.next - 1) :
               \E i \in 1..Len(objs.ids) : objs.ids[i] = id

\* C17: for a Subclip whose resolution is set, the height accessor gives the
\* resolution's height and the width accessor its width.
C17_Accessors ==
    (/\ call.op = "size"
     /\ call.self.resolution.width > 0
     /\ call.self.resolution.height > 0)
        => /\ call.width = call.self.resolution.width
           /\ call.height = call.self.resolution.height

\* C20: is_mismatch against a clip with a variable format, width, height or
\* frame rate is true for every Subclip.
C20_VariableNodeMismatch ==
    (call.op = "is_mismatch" /\ call.kind = "node" /\ call.variable)
        => call.result

\* C18: a Subclip is appended to the output list at most once, and once it
\* is in the list its start, end and resolution are never changed by a later
\* callback of the scan.
C18_SealedIsFinal ==
    (pc = "scan" \/ n > 0) =>
        /\ Len(reslist) = Len(sealed)
        /\ Len(reslist) = Len(objs.ids)
        /\ \A i, j \in 1..Len(objs.ids) : i < j => objs.ids[i] # objs.ids[j]
        /\ \A i \in 1..Len(reslist) :
               /\ reslist[i].start = sealed[i].start
               /\ reslist[i].end = sealed[i].end
               /\ reslist[i].resolution = sealed[i].resolution

C18_Witness ==
    /\ pc = "scan"
    /\ n = Len(frames)
    /\ Len(reslist) >= 2
    /\ ~IsNone(curclip)
    /\ Val(curclip).start > reslist[1].start

\* The frame eval has been through every frame and a filterfunc was passed:
\* lines 125-131 are run.
Reassembled == n = Len(frames) /\ filterfunc /\ pc \in {"done", "raised"}

\* C19: if the filterfunc or the splice fails for a scan, no Subclip of that
\* scan has had its clip changed; otherwise all of them reference the one
\* spliced clip.
C19_AllOrNothing ==
    Reassembled =>
        IF pc = "raised"
        THEN \A i \in 1..Len(reslist) : reslist[i].clip = "src"
        ELSE /\ \A i \in 1..Len(reslist) : reslist[i].clip = "spliced"
             /\ Returned = reslist

C19_Witness ==
    /\ Reassembled
    /\ pc = "raised"
    /\ Len(reslist) >= 2

(***************************************************************************)
(* The spliced clip (lines 126-129)                                        *)
(***************************************************************************)

\* filterfunc(sc.trim) for a filterfunc that keeps the number of frames: the
\* trim's frames, each named by the source frame index it was made from.
FilteredTrim(sc) == [i \in 1..(sc.end - sc.start) |-> sc.start + i - 1]

RECURSIVE Splice(_)
\* core.std.Splice(filtered, mismatch=True): the filtered trims of the list,
\* one after the other, in the order of the list.
Splice(list) ==
    IF Len(list) = 0 THEN << >>
    ELSE FilteredTrim(Head(list)) \o Splice(Tail(list))

\* The filterfunc and the splice were run on the scanned list and the call
\* has returned.
SplicedReturned == pc = "done" /\ filterfunc /\ n = Len(frames)

\* C21: after the splice with a filterfunc that keeps the frame count, each
\* returned Subclip's [start, end) lies within its new clip, and that clip
\* sliced to [start, end) is exactly the filtered frames of the Subclip, also
\* when a target filter discarded frames before it.
C21_SliceOfSpliced ==
    SplicedReturned =>
        \A i \in 1..Len(Returned) :
            /\ Returned[i].clip = "spliced"
            /\ Returned[i].end <= Len(Splice(sealed))
            /\ \A k \in 0..(Len(frames) - 1) :
                   (Returned[i].start <= k /\ k < Returned[i].end)
                       => Splice(sealed)[k + 1] = k

====
